---- MODULE Spec2Model ----
(***************************************************************************)
(* bintray-cleanup: lists the versions of a package (or of every package   *)
(* of a repository), partitions them by age against a cutoff and deletes   *)
(* the old ones, with dry-run and confirmation safeguards.                 *)
(*                                                                         *)
(* Time is counted in whole days.  One subject and one repository are      *)
(* fixed, so a version is identified by (package, name).  The HTTP session *)
(* is a cache of GET responses keyed by URL in front of the server's       *)
(* catalog; DELETE requests always reach the server.                       *)
(***************************************************************************)
EXTENDS Integers, Sequences, FiniteSets, TLC

VARIABLES
    remote,             \* the server: package -> its versions, in listing order
    cache,              \* the session's response cache: URL -> response body
    pc,                 \* "idle", "candidate", "done", "nothing_to_delete", "aborted"
    command,            \* the command the process was started with
    dryrun, yes, limit, \* the options of the running delete command
    cutoff_result,      \* DateCutoffResult of the running command
    versions_to_keep,   \* package grouping, in insertion order
    versions_to_delete, \* package grouping, in insertion order
    next,               \* index in the flattened delete list of the candidate at hand
    deleted_versions,   \* the executor's result list
    offered,            \* versions announced as "Candidate for deletion"
    prompted,           \* the click.confirm prompts: version and answer
    deleteRequests,     \* the DELETE requests: version and whether it got 2xx
    processing,         \* packages announced as "Processing <package>"
    cacheCleared,       \* clear_cache ran in this command
    listing,            \* the version list the last loading command returned
    fromCache           \* that list was served without any request to the server

vars == <<remote, cache, pc, command, dryrun, yes, limit, cutoff_result, versions_to_keep,
          versions_to_delete, next, deleted_versions, offered, prompted,
          deleteRequests, processing, cacheCleared, listing, fromCache>>

\* ------------------------------------------------------------------ bounds
MaxVersions == 3      \* versions on the server at the start, all packages
MaxTime == 1          \* creation times are 0 .. MaxTime

Packages == {"pkgA", "pkgB"}
PackageOrder == <<"pkgA", "pkgB">>   \* order of the repository's package listing
Times == 0 .. MaxTime
Now == MaxTime                        \* datetime.now(timezone.utc), in days
Days == -1 .. MaxTime                 \* older_than_days: negative, zero, positive
NoLimit == << >>                      \* --limit not given (None)
Limits == {NoLimit, <<1>>}            \* --limit N is <<N>>

\* ------------------------------------------------------------ sequence help
Range(s) == {s[i] : i \in 1 .. Len(s)}

RECURSIVE SumLen(_)
SumLen(groups) ==
    IF groups = << >> THEN 0
    ELSE Len(Head(groups).versions) + SumLen(Tail(groups))

RECURSIVE Flatten(_)
Flatten(groups) ==
    IF groups = << >> THEN << >>
    ELSE Head(groups).versions \o Flatten(Tail(groups))

GroupPackages(groups) == {groups[i].package : i \in 1 .. Len(groups)}

GroupOf(groups, p) ==
    IF p \in GroupPackages(groups)
    THEN (CHOOSE i \in 1 .. Len(groups) : groups[i].package = p)
    ELSE 0

VersionsOf(groups, p) ==
    IF GroupOf(groups, p) = 0 THEN << >> ELSE groups[GroupOf(groups, p)].versions

\* ------------------------------------------------ the server and the cache
PackagesUrl == <<"packages">>
PackageUrl(p) == <<"package", p>>
VersionUrl(p, n) == <<"version", p, n>>

EmptyCache == << >>

NamesOf(versions) == [i \in 1 .. Len(versions) |-> versions[i].name]

Exists(rem, url) ==
    IF url[1] = "version"
    THEN \E i \in 1 .. Len(rem[url[2]]) : rem[url[2]][i].name = url[3]
    ELSE TRUE

Body(rem, url) ==
    IF url[1] = "packages" THEN PackageOrder
    ELSE IF url[1] = "package" THEN NamesOf(rem[url[2]])
    ELSE LET vs == rem[url[2]]
         IN  vs[CHOOSE i \in 1 .. Len(vs) : vs[i].name = url[3]]

\* variant: the status is not checked
raise_for_status_never(status_ok) == FALSE

\* raise_for_status: a non-2xx response raises
raise_for_status(status_ok) == ~status_ok

\* GET through the cached session: a cached response is served without a
\* request; otherwise the server answers (netOk: it answers 2xx for what it
\* has) and a 2xx response is stored.
request_json(c, rem, url, netOk) ==
    IF url \in DOMAIN c
    THEN [ok |-> TRUE, body |-> c[url], cache |-> c]
    ELSE IF raise_for_status(netOk /\ Exists(rem, url))
    THEN [ok |-> FALSE, body |-> << >>, cache |-> c]
    ELSE [ok |-> TRUE, body |-> Body(rem, url),
          cache |-> (url :> Body(rem, url)) @@ c]

RECURSIVE FetchVersions(_, _, _, _, _, _)
FetchVersions(c, rem, p, names, netOk, acc) ==
    IF names = << >> THEN [ok |-> TRUE, versions |-> acc, cache |-> c]
    ELSE LET r == request_json(c, rem, VersionUrl(p, Head(names)), netOk)
         IN  IF ~r.ok THEN [ok |-> FALSE, versions |-> << >>, cache |-> r.cache]
             ELSE FetchVersions(r.cache, rem, p, Tail(names), netOk,
                                Append(acc, r.body))

list_versions(c, rem, p, netOk) ==
    LET package_data == request_json(c, rem, PackageUrl(p), netOk)
    IN  IF ~package_data.ok
        THEN [ok |-> FALSE, versions |-> << >>, cache |-> package_data.cache]
        ELSE FetchVersions(package_data.cache, rem, p, package_data.body,
                           netOk, << >>)

list_packages(c, rem, netOk) == request_json(c, rem, PackagesUrl, netOk)

RECURSIVE FetchPackages(_, _, _, _, _)
FetchPackages(c, rem, pkgs, netOk, acc) ==
    IF pkgs = << >> THEN [ok |-> TRUE, versions |-> acc, cache |-> c]
    ELSE LET r == list_versions(c, rem, Head(pkgs), netOk)
         IN  IF ~r.ok THEN r
             ELSE FetchPackages(r.cache, rem, Tail(pkgs), netOk,
                                acc \o r.versions)

\* the loading half of list_old_versions_in_repo
list_versions_in_repo(c, rem, netOk) ==
    LET pkgs == list_packages(c, rem, netOk)
    IN  IF ~pkgs.ok THEN [ok |-> FALSE, versions |-> << >>, cache |-> pkgs.cache]
        ELSE FetchPackages(pkgs.cache, rem, pkgs.body, netOk, << >>)

\* ------------------------------------------------------ grouping, partition
GroupAdd(groups, v) ==
    IF v.package \in GroupPackages(groups)
    THEN [i \in 1 .. Len(groups) |->
            IF groups[i].package = v.package
            THEN [groups[i] EXCEPT !.versions = Append(@, v)]
            ELSE groups[i]]
    ELSE Append(groups, [package |-> v.package, versions |-> <<v>>])

RECURSIVE GroupInto(_, _)
GroupInto(groups, versions) ==
    IF versions = << >> THEN groups
    ELSE GroupInto(GroupAdd(groups, Head(versions)), Tail(versions))

group_versions_by_package(versions) == GroupInto(<< >>, versions)

\* sorted(..., key=created): a stable sort, an element goes behind every
\* element whose key is not greater
InsertByCreated(s, v) ==
    LET k == Cardinality({i \in 1 .. Len(s) : s[i].created <= v.created})
    IN  SubSeq(s, 1, k) \o <<v>> \o SubSeq(s, k + 1, Len(s))

RECURSIVE SortInto(_, _)
SortInto(acc, versions) ==
    IF versions = << >> THEN acc
    ELSE SortInto(InsertByCreated(acc, Head(versions)), Tail(versions))

sorted(versions) == SortInto(<< >>, versions)

\* variant: a version created exactly at the cutoff counts as old
IsOld_inclusive(v, cutoff) == v.created <= cutoff

IsOld(v, cutoff) == v.created < cutoff

IsNew(v, cutoff) == v.created >= cutoff

apply_date_cutoff(versions, older_than_days) ==
    LET cutoff == Now - older_than_days
        isold(v) == IsOld(v, cutoff)
        isnew(v) == IsNew(v, cutoff)
    IN  [cutoff |-> cutoff,
         old |-> sorted(SelectSeq(versions, isold)),
         new |-> sorted(SelectSeq(versions, isnew))]

\* ------------------------------------------------------- deletion selector
\* pop() variants: one that leaves the list as it was, one that takes the
\* first element
pop_without_removing(versions) ==
    [item |-> versions[Len(versions)], rest |-> versions]

pop_first(versions) ==
    [item |-> versions[1], rest |-> Tail(versions)]

\* list.pop(): the last element and the list without it
pop(versions) ==
    [item |-> versions[Len(versions)],
     rest |-> SubSeq(versions, 1, Len(versions) - 1)]

\* the loop over versions_to_delete.items() that preserves one version of
\* every package without a version to keep
RECURSIVE Rescue(_, _, _)
Rescue(keep, del, i) ==
    IF i > Len(del) THEN [keep |-> keep, delete |-> del]
    ELSE IF del[i].package \notin GroupPackages(keep)
    THEN LET popped == pop(del[i].versions)
         IN  Rescue(Append(keep, [package |-> del[i].package,
                                  versions |-> <<popped.item>>]),
                    [del EXCEPT ![i].versions = popped.rest], i + 1)
    ELSE Rescue(keep, del, i + 1)

ToKeepGroups(result) == group_versions_by_package(result.new)

\* variant: the delete candidates are taken from the new versions
ToDeleteGroups_from_new(result) == group_versions_by_package(result.new)

ToDeleteGroups(result) == group_versions_by_package(result.old)

SelectDeletions(result) ==
    Rescue(ToKeepGroups(result), ToDeleteGroups(result), 1)

\* "if not versions_to_delete": the dict has no key
NothingToDelete(del) == Len(del) = 0

\* "Processing <package>" has been announced for every group up to the one
\* holding candidate k of the flattened list, for all groups past the last
RECURSIVE Entered(_, _)
Entered(groups, k) ==
    IF groups = << >> THEN << >>
    ELSE IF k >= 1 /\ k <= Len(Head(groups).versions)
         THEN <<Head(groups).package>>
         ELSE <<Head(groups).package>>
              \o Entered(Tail(groups), k - Len(Head(groups).versions))

\* ----------------------------------------------------------------- executor
\* variant: the answer is not looked at
Confirmed_whatever_the_answer(autoConfirm, answer) == TRUE

Confirmed(autoConfirm, answer) == autoConfirm \/ answer

AsksConfirmation(autoConfirm) == ~autoConfirm

\* variant: the dry-run flag is not looked at
IssuesDelete_in_dryrun(confirmed, dry) == confirmed

IssuesDelete(confirmed, dry) == confirmed /\ ~dry

ClearsCache(dry) == ~dry

Remove(rem, v) ==
    LET keepit(w) == w.name # v.name
    IN  [rem EXCEPT ![v.package] = SelectSeq(@, keepit)]

OnServer(rem, v) == \E i \in 1 .. Len(rem[v.package]) : rem[v.package][i] = v

NoResult == [cutoff |-> 0, old |-> << >>, new |-> << >>]

\* ------------------------------------------------------------------- states
Catalog(times, p) ==
    [i \in 1 .. Len(times) |-> [package |-> p, name |-> i, created |-> times[i]]]

TimeLists == UNION {[1 .. n -> Times] : n \in 0 .. MaxVersions}

Init ==
    /\ \E times \in [Packages -> TimeLists] :
          /\ Len(times["pkgA"]) + Len(times["pkgB"]) <= MaxVersions
          /\ remote = [p \in Packages |-> Catalog(times[p], p)]
    /\ cache = EmptyCache
    /\ pc = "idle"
    /\ command = "none"
    /\ dryrun = TRUE
    /\ yes = FALSE
    /\ limit = NoLimit
    /\ cutoff_result = NoResult
    /\ versions_to_keep = << >>
    /\ versions_to_delete = << >>
    /\ next = 0
    /\ deleted_versions = << >>
    /\ offered = << >>
    /\ prompted = << >>
    /\ deleteRequests = << >>
    /\ processing = << >>
    /\ cacheCleared = FALSE
    /\ listing = << >>
    /\ fromCache = FALSE

\* a command that ends without reaching the executor
EndsEarly(cmd, state, c, result, versions, served) ==
    /\ pc' = state
    /\ command' = cmd
    /\ cache' = c
    /\ cutoff_result' = result
    /\ listing' = versions
    /\ fromCache' = served
    /\ dryrun' = TRUE /\ yes' = FALSE /\ limit' = NoLimit
    /\ versions_to_keep' = << >> /\ versions_to_delete' = << >>
    /\ next' = 0 /\ deleted_versions' = << >>
    /\ offered' = << >> /\ prompted' = << >> /\ deleteRequests' = << >>
    /\ processing' = << >> /\ cacheCleared' = FALSE
    /\ UNCHANGED remote

\* list_versions
ListVersions(p, netOk) ==
    /\ pc = "idle"
    /\ LET r == list_versions(cache, remote, p, netOk)
       IN  IF r.ok
           THEN EndsEarly("list_versions", "done", r.cache, NoResult,
                          r.versions, r.cache = cache)
           ELSE EndsEarly("list_versions", "aborted", r.cache, NoResult,
                          << >>, FALSE)

\* list_old_versions
ListOldVersions(p, days, netOk) ==
    /\ pc = "idle"
    /\ LET r == list_versions(cache, remote, p, netOk)
       IN  IF r.ok
           THEN EndsEarly("list_old_versions", "done", r.cache,
                          apply_date_cutoff(r.versions, days),
                          r.versions, r.cache = cache)
           ELSE EndsEarly("list_old_versions", "aborted", r.cache,
                          NoResult, << >>, FALSE)

\* list_packages
ListPackages(netOk) ==
    /\ pc = "idle"
    /\ LET r == list_packages(cache, remote, netOk)
       IN  IF r.ok
           THEN EndsEarly("list_packages", "done", r.cache, NoResult, << >>, FALSE)
           ELSE EndsEarly("list_packages", "aborted", r.cache, NoResult,
                          << >>, FALSE)

\* list_old_versions_in_repo
ListOldVersionsInRepo(days, netOk) ==
    /\ pc = "idle"
    /\ LET r == list_versions_in_repo(cache, remote, netOk)
       IN  IF r.ok
           THEN EndsEarly("list_old_versions_in_repo", "done", r.cache,
                          apply_date_cutoff(r.versions, days),
                          r.versions, r.cache = cache)
           ELSE EndsEarly("list_old_versions_in_repo", "aborted", r.cache,
                          NoResult, << >>, FALSE)

\* clear_cache
ClearCache ==
    /\ pc = "idle"
    /\ EndsEarly("clear_cache", "done", EmptyCache, NoResult, << >>, FALSE)

\* _delete_old_versions up to its first candidate: the selection, the
\* "nothing to delete" return and, when the groups hold no candidate at all,
\* the two loops and the end of the function
StartDelete(cmd, r, days, dry, lim, y) ==
    LET result == apply_date_cutoff(r.versions, days)
        sel == SelectDeletions(result)
    IN  IF ~r.ok
        THEN EndsEarly(cmd, "aborted", r.cache, NoResult, << >>, FALSE)
        ELSE /\ command' = cmd
             /\ cutoff_result' = result
             /\ listing' = r.versions
             /\ fromCache' = (r.cache = cache)
             /\ dryrun' = dry /\ yes' = y /\ limit' = lim
             /\ versions_to_keep' = sel.keep
             /\ versions_to_delete' = sel.delete
             /\ deleted_versions' = << >>
             /\ offered' = << >> /\ prompted' = << >> /\ deleteRequests' = << >>
             /\ UNCHANGED remote
             /\ IF NothingToDelete(sel.delete)
                THEN /\ pc' = "nothing_to_delete"
                     /\ next' = 0
                     /\ processing' = << >>
                     /\ cacheCleared' = FALSE
                     /\ cache' = r.cache
                ELSE IF SumLen(sel.delete) = 0
                THEN /\ pc' = "done"
                     /\ next' = 0
                     /\ processing' = Entered(sel.delete, 1)
                     /\ cacheCleared' = ClearsCache(dry)
                     /\ cache' = IF ClearsCache(dry) THEN EmptyCache ELSE r.cache
                ELSE /\ pc' = "candidate"
                     /\ next' = 1
                     /\ processing' = Entered(sel.delete, 1)
                     /\ cacheCleared' = FALSE
                     /\ cache' = r.cache

\* delete_old_versions
DeleteOldVersions(p, days, dry, lim, y, netOk) ==
    /\ pc = "idle"
    /\ StartDelete("delete_old_versions",
                   list_versions(cache, remote, p, netOk), days, dry, lim, y)

\* delete_old_versions_in_repo
DeleteOldVersionsInRepo(days, dry, lim, y, netOk) ==
    /\ pc = "idle"
    /\ StartDelete("delete_old_versions_in_repo",
                   list_versions_in_repo(cache, remote, netOk), days, dry, lim, y)

\* one pass of the inner loop of _delete_old_versions: the candidate is
\* announced, confirmed or declined, then simulated or deleted; after the
\* last candidate the function ends and clears the cache of a real run
ProcessCandidate(answer, deleteOk) ==
    /\ pc = "candidate"
    /\ LET candidates == Flatten(versions_to_delete)
           version == candidates[next]
           confirmed == Confirmed(yes, answer)
           request == IssuesDelete(confirmed, dryrun)
           status_ok == deleteOk /\ OnServer(remote, version)
           raised == request /\ raise_for_status(status_ok)
           last == next = Len(candidates)
       IN  /\ offered' = Append(offered, version)
           /\ prompted' = IF AsksConfirmation(yes)
                          THEN Append(prompted, [version |-> version,
                                                 answer |-> answer])
                          ELSE prompted
           /\ deleteRequests' = IF request
                                THEN Append(deleteRequests, [version |-> version,
                                                             ok |-> status_ok])
                                ELSE deleteRequests
           /\ remote' = IF request /\ status_ok THEN Remove(remote, version)
                        ELSE remote
           /\ deleted_versions' = IF confirmed /\ ~raised
                                  THEN Append(deleted_versions, version)
                                  ELSE deleted_versions
           /\ IF raised
              THEN /\ pc' = "aborted"
                   /\ UNCHANGED <<next, processing, cacheCleared, cache>>
              ELSE IF last
              THEN /\ pc' = "done"
                   /\ processing' = Entered(versions_to_delete, next + 1)
                   /\ cacheCleared' = ClearsCache(dryrun)
                   /\ cache' = IF ClearsCache(dryrun) THEN EmptyCache ELSE cache
                   /\ UNCHANGED next
              ELSE /\ pc' = "candidate"
                   /\ next' = next + 1
                   /\ processing' = Entered(versions_to_delete, next + 1)
                   /\ UNCHANGED <<cacheCleared, cache>>
    /\ UNCHANGED <<command, dryrun, yes, limit, cutoff_result, versions_to_keep,
                   versions_to_delete, listing, fromCache>>

\* the process ends; the server and the cache file outlive it
Exit ==
    /\ pc \in {"done", "nothing_to_delete", "aborted"}
    /\ EndsEarly("none", "idle", cache, NoResult, << >>, FALSE)

Next ==
    \/ \E p \in Packages, netOk \in BOOLEAN : ListVersions(p, netOk)
    \/ \E p \in Packages, days \in Days, netOk \in BOOLEAN :
          ListOldVersions(p, days, netOk)
    \/ \E netOk \in BOOLEAN : ListPackages(netOk)
    \/ \E days \in Days, netOk \in BOOLEAN : ListOldVersionsInRepo(days, netOk)
    \/ ClearCache
    \/ \E p \in Packages, days \in Days, dry \in BOOLEAN, lim \in Limits,
          y \in BOOLEAN, netOk \in BOOLEAN :
          DeleteOldVersions(p, days, dry, lim, y, netOk)
    \/ \E days \in Days, dry \in BOOLEAN, lim \in Limits, y \in BOOLEAN,
          netOk \in BOOLEAN :
          DeleteOldVersionsInRepo(days, dry, lim, y, netOk)
    \/ \E answer \in BOOLEAN, deleteOk \in BOOLEAN :
          ProcessCandidate(answer, deleteOk)
    \/ Exit

Spec == Init /\ [][Next]_vars

TypeOK == pc \in {"idle", "candidate", "done", "nothing_to_delete", "aborted"}

\* ------------------------------------------------------------------ claims
DeleteCommands == {"delete_old_versions", "delete_old_versions_in_repo"}

\* the running command is a delete command whose catalog was loaded
Loaded ==
    /\ command \in DeleteCommands
    /\ pc # "aborted" \/ deleteRequests # << >>

Candidates == Flatten(versions_to_delete)

Requested == {deleteRequests[i].version : i \in 1 .. Len(deleteRequests)}

OfPackage(versions, p) ==
    LET inp(v) == v.package = p
    IN  SelectSeq(versions, inp)

Position(versions, v) == CHOOSE i \in 1 .. Len(versions) : versions[i] = v

Ascending(versions) ==
    \A i, j \in 1 .. Len(versions) :
        i < j => versions[i].created <= versions[j].created

\* versions created at the same time stand in the order of the input
Stable(versions, input) ==
    \A i, j \in 1 .. Len(versions) :
        (i < j /\ versions[i].created = versions[j].created)
            => Position(input, versions[i]) < Position(input, versions[j])

\* C1: after the selection every package with a version in old or new has a
\* version in the keep set that is not in the delete set, and no DELETE
\* request is ever sent for it, so no run requests the deletion of every
\* version of a package.
C1_KeepAtLeastOne ==
    Loaded =>
        \A p \in Packages :
            OfPackage(cutoff_result.old \o cutoff_result.new, p) # << >>
                => \E v \in Range(VersionsOf(versions_to_keep, p)) :
                      /\ v.package = p
                      /\ v \in Range(listing)
                      /\ v \notin Range(Candidates)
                      /\ v \notin Requested

\* a real run that deleted every candidate of a package whose versions were
\* all old
C1_Witness ==
    /\ pc = "done"
    /\ command \in DeleteCommands
    /\ ~dryrun
    /\ cutoff_result.new = << >>
    /\ Len(cutoff_result.old) >= 2
    /\ Len(deleteRequests) = Len(cutoff_result.old) - Len(versions_to_keep)
    /\ Len(deleteRequests) >= 1

\* C2: in a dry run no DELETE request is sent and the cache is not cleared,
\* whatever the confirmations.
C2_DryRunSafety ==
    (command \in DeleteCommands /\ dryrun) =>
        /\ deleteRequests = << >>
        /\ ~cacheCleared
        /\ Loaded => cache # EmptyCache

\* a finished dry run in which candidates were confirmed by answer
C2_Witness ==
    /\ pc = "done"
    /\ command \in DeleteCommands
    /\ dryrun
    /\ ~yes
    /\ Len(deleted_versions) >= 2

FirstN(s, n) == SubSeq(s, 1, IF n < Len(s) THEN n ELSE Len(s))

\* C3: with --limit N at most the first N candidates of the flattened delete
\* list are attempted.
C3_LimitRespected ==
    (Loaded /\ limit # NoLimit) =>
        /\ Len(offered) <= limit[1]
        /\ pc = "done" => offered = FirstN(Candidates, limit[1])

\* C4: when no delete candidate is left after the rescue, the command takes
\* the "nothing to delete" return: no package is processed and the cache is
\* not cleared.
C4_NothingToDelete ==
    (Loaded /\ SumLen(versions_to_delete) = 0) =>
        /\ pc = "nothing_to_delete"
        /\ processing = << >>
        /\ ~cacheCleared

\* C5: a real run that began its deletion batch has cleared the cache when
\* it ends, completed or aborted, so a later listing served from the cache
\* holds no version that the server no longer has.
C5_CacheClearedAfterBatch ==
    /\ (Loaded /\ ~dryrun /\ Candidates # << >> /\ pc \in {"done", "aborted"})
          => cacheCleared
    /\ (command = "list_versions" /\ pc = "done" /\ fromCache)
          => \A v \in Range(listing) : OnServer(remote, v)

\* C6: a DELETE request that is answered with a failure is the last thing
\* the run does: the version is not in the deleted list and no later
\* candidate is announced, prompted for or requested.
C6_FatalDeleteFailure ==
    \A i \in 1 .. Len(deleteRequests) :
        ~deleteRequests[i].ok =>
            /\ pc = "aborted"
            /\ i = Len(deleteRequests)
            /\ deleteRequests[i].version \notin Range(deleted_versions)
            /\ deleteRequests[i].version = Candidates[next]
            /\ offered = SubSeq(Candidates, 1, next)
            /\ \A k \in (next + 1) .. Len(Candidates) :
                  /\ Candidates[k] \notin Requested
                  /\ \A j \in 1 .. Len(prompted) :
                        prompted[j].version # Candidates[k]

\* a real run aborted by a failed DELETE with a candidate still waiting
C6_Witness ==
    /\ pc = "aborted"
    /\ Len(deleteRequests) >= 1
    /\ ~deleteRequests[Len(deleteRequests)].ok
    /\ Len(Candidates) > next

PromptedVersions == [i \in 1 .. Len(prompted) |-> prompted[i].version]

ConfirmedVersions ==
    LET saidyes(q) == q.answer
        qs == SelectSeq(prompted, saidyes)
    IN  [i \in 1 .. Len(qs) |-> qs[i].version]

\* C7: a declined candidate gets no DELETE request, is not in the deleted
\* list and does not end the run; a run without a failed request offers
\* every candidate once, in order, and returns exactly the confirmed ones
\* in that order.
C7_DeclineIsSkip ==
    /\ \A j \in 1 .. Len(prompted) :
          ~prompted[j].answer =>
              /\ prompted[j].version \notin Requested
              /\ prompted[j].version \notin Range(deleted_versions)
              /\ j = Len(prompted) => pc # "aborted"
    /\ (Loaded /\ ~yes) => PromptedVersions = offered
    /\ (Loaded /\ pc = "done") =>
          /\ offered = Candidates
          /\ yes => prompted = << >> /\ deleted_versions = Candidates
          /\ ~yes => deleted_versions = ConfirmedVersions

\* a finished run in which the first candidate was declined and a later
\* one confirmed
C7_Witness ==
    /\ pc = "done"
    /\ ~yes
    /\ Len(prompted) >= 2
    /\ ~prompted[1].answer
    /\ prompted[2].answer
    /\ Len(deleted_versions) = 1

PartitionCommands ==
    DeleteCommands \cup {"list_old_versions", "list_old_versions_in_repo"}

\* the running command has partitioned its catalog
Partitioned ==
    /\ command \in PartitionCommands
    /\ pc # "aborted" \/ deleteRequests # << >>

\* C8: old holds exactly the loaded versions created before the cutoff, new
\* exactly those created at or after it, each version once; both lists are
\* ascending by creation time and keep the input order of equal times.
C8_PartitionCorrect ==
    Partitioned =>
        LET old == cutoff_result.old
            new == cutoff_result.new
            cutoff == cutoff_result.cutoff
        IN  /\ Range(old) = {v \in Range(listing) : v.created < cutoff}
            /\ Range(new) = {v \in Range(listing) : v.created >= cutoff}
            /\ Len(old) = Cardinality(Range(old))
            /\ Len(new) = Cardinality(Range(new))
            /\ Len(old) + Len(new) = Len(listing)
            /\ Ascending(old) /\ Ascending(new)
            /\ Stable(old, listing) /\ Stable(new, listing)

\* an input that is not in creation order, with two old versions of the
\* same creation time and a new version
C8_Witness ==
    /\ Partitioned
    /\ ~Ascending(listing)
    /\ Len(cutoff_result.old) = 2
    /\ cutoff_result.old[1].created = cutoff_result.old[2].created
    /\ Len(cutoff_result.new) = 1

\* what the selection is to give for package p
ExpectedDelete(p) ==
    LET olds == OfPackage(cutoff_result.old, p)
    IN  IF OfPackage(cutoff_result.new, p) = << >> /\ olds # << >>
        THEN SubSeq(olds, 1, Len(olds) - 1)
        ELSE olds

ExpectedKeep(p) ==
    LET olds == OfPackage(cutoff_result.old, p)
        news == OfPackage(cutoff_result.new, p)
    IN  IF news # << >> THEN news
        ELSE IF olds # << >> THEN <<olds[Len(olds)]>>
        ELSE << >>

\* C9: the delete list of a package is its old versions in ascending order,
\* without the last one exactly when the package has no new version; its
\* keep set is its new versions or else that last old version; selecting
\* again from the same cutoff result gives the same two groupings.
C9_SelectionResult ==
    Loaded =>
        /\ \A p \in Packages :
              /\ VersionsOf(versions_to_delete, p) = ExpectedDelete(p)
              /\ VersionsOf(versions_to_keep, p) = ExpectedKeep(p)
        /\ SelectDeletions(cutoff_result)
              = [keep |-> versions_to_keep, delete |-> versions_to_delete]
        /\ cutoff_result
              = apply_date_cutoff(listing, Now - cutoff_result.cutoff)

\* a package with two old versions of different age and no new one: the
\* older is to delete, the younger is kept
C9_Witness ==
    /\ Loaded
    /\ \E p \in Packages :
          /\ OfPackage(cutoff_result.new, p) = << >>
          /\ Len(OfPackage(cutoff_result.old, p)) = 2
          /\ Len(VersionsOf(versions_to_delete, p)) = 1
          /\ Len(VersionsOf(versions_to_keep, p)) = 1
          /\ VersionsOf(versions_to_delete, p)[1].created
                < VersionsOf(versions_to_keep, p)[1].created

\* C10: every DELETE request is for a version of the loaded catalog created
\* before the cutoff, and no version gets two DELETE requests in a run.
C10_OnlyOldDeleted ==
    /\ \A i \in 1 .. Len(deleteRequests) :
          /\ deleteRequests[i].version \in Range(listing)
          /\ deleteRequests[i].version.created < cutoff_result.cutoff
    /\ \A i, j \in 1 .. Len(deleteRequests) :
          deleteRequests[i].version = deleteRequests[j].version => i = j

\* a real run that sent DELETE requests while the catalog had a new version
C10_Witness ==
    /\ Len(deleteRequests) >= 2
    /\ cutoff_result.new # << >>

====
